---- MODULE Spec2Model ----
(***************************************************************************)
(* The Slack notifier of cloud-build-notifiers (slack/main.go).            *)
(*                                                                         *)
(* Strings are sequences of one-character strings.  The block schema of    *)
(* the chat platform is reduced to two block kinds written with fixed      *)
(* keys: a section {"s":"<json string>"} and a divider {"d":1}.            *)
(***************************************************************************)
EXTENDS Integers, Sequences, FiniteSets, TLC

(***************************************************************************)
(* Bounds of the model.                                                    *)
(***************************************************************************)
MaxStatus == 10        \* build statuses are drawn from 0..MaxStatus
MaxCalls == 2          \* SendNotification calls the host makes
NumGoroutines == 2     \* goroutines of the host that may call concurrently
MaxExtra == 2          \* characters a long rendering has beyond TruncLen

(***************************************************************************)
(* Program constants.                                                      *)
(***************************************************************************)
Build_SUCCESS == 3
Build_FAILURE == 4
Build_INTERNAL_ERROR == 5
Build_TIMEOUT == 6
TruncLen == 500

Q == "\""
BS == "\\"
NL == "\n"

ColorSuccess == <<"#", "2", "2", "b", "b", "3", "3">>
ColorFailure == <<"#", "b", "b", "2", "1", "2", "4">>
ColorNeutral == <<"#", "f", "0", "a", "d", "4", "e">>

(***************************************************************************)
(* cbpb.Build_Status and its String() method.                              *)
(***************************************************************************)
Statuses == 0..MaxStatus

DigitChars == <<"0", "1", "2", "3", "4", "5", "6", "7", "8", "9">>

RECURSIVE Itoa(_)
Itoa(n) ==
  IF n < 10 THEN <<DigitChars[n + 1]>>
  ELSE Itoa(n \div 10) \o <<DigitChars[(n % 10) + 1]>>

StatusString(st) ==
  CASE st = 0 -> <<"S","T","A","T","U","S","_","U","N","K","N","O","W","N">>
    [] st = 1 -> <<"Q","U","E","U","E","D">>
    [] st = 2 -> <<"W","O","R","K","I","N","G">>
    [] st = Build_SUCCESS -> <<"S","U","C","C","E","S","S">>
    [] st = Build_FAILURE -> <<"F","A","I","L","U","R","E">>
    [] st = Build_INTERNAL_ERROR ->
         <<"I","N","T","E","R","N","A","L","_","E","R","R","O","R">>
    [] st = Build_TIMEOUT -> <<"T","I","M","E","O","U","T">>
    [] st = 7 -> <<"C","A","N","C","E","L","L","E","D">>
    [] st = 9 -> <<"E","X","P","I","R","E","D">>
    [] st = 10 -> <<"P","E","N","D","I","N","G">>
    [] OTHER -> Itoa(st)

\* a color switch whose failure case has lost TIMEOUT
statusColorNoTimeout(st) ==
  CASE st = Build_SUCCESS -> ColorSuccess
    [] st \in {Build_FAILURE, Build_INTERNAL_ERROR} -> ColorFailure
    [] OTHER -> ColorNeutral

(***************************************************************************)
(* The color switch of writeMessage.                                       *)
(***************************************************************************)
statusColor(st) ==
  CASE st = Build_SUCCESS -> ColorSuccess
    [] st \in {Build_FAILURE, Build_INTERNAL_ERROR, Build_TIMEOUT} -> ColorFailure
    [] OTHER -> ColorNeutral

(***************************************************************************)
(* Values seen by template functions, and the two functions.               *)
(***************************************************************************)
StrVal(s) == [k |-> "str", s |-> s, n |-> 0]
EnumVal(n) == [k |-> "enum", s |-> <<>>, n |-> n]
NilVal == [k |-> "nil", s |-> <<>>, n |-> 0]

\* json.Marshal of a string with the surrounding quotes removed
RECURSIVE jsonEscape(_)
jsonEscape(s) ==
  IF s = <<>> THEN <<>>
  ELSE LET c == Head(s)
           e == CASE c = Q -> <<BS, Q>>
                  [] c = BS -> <<BS, BS>>
                  [] c = NL -> <<BS, "n">>
                  [] OTHER -> <<c>>
       IN e \o jsonEscape(Tail(s))

\* strings.ReplaceAll for a one-character old
RECURSIVE ReplaceAll(_, _, _)
ReplaceAll(s, old, new) ==
  IF s = <<>> THEN <<>>
  ELSE (IF Head(s) = old THEN new ELSE <<Head(s)>>) \o ReplaceAll(Tail(s), old, new)

Success(out) == [ok |-> TRUE, out |-> out]
Failure(why) == [ok |-> FALSE, out |-> why]

\* a call of jsonEscape as registered by SetUp: the parameter is a string,
\* and the template engine refuses any argument that is not one
CallJsonEscape(v) ==
  IF v.k = "str" THEN Success(jsonEscape(v.s))
  ELSE IF v.k = "nil" THEN Failure("cannot assign nil to string")
  ELSE Failure("wrong type for value; expected string")

CallReplace(v, old, new) ==
  IF v.k = "str" THEN Success(ReplaceAll(v.s, old, new))
  ELSE IF v.k = "nil" THEN Failure("cannot assign nil to string")
  ELSE Failure("wrong type for value; expected string")

(***************************************************************************)
(* Build events and the template view.                                     *)
(***************************************************************************)
ProjectId == <<"p", "1">>
GoodUrl == <<"h", ":", "/", "l", "?", Q>>
BadUrl == <<"h", ":", "/", "%", "z">>
LogUrls == {GoodUrl, BadUrl}

\* Build.Substitutions, a map with at most the key K
NoSubst == [has |-> FALSE, val |-> <<>>]
Subst(s) == [has |-> TRUE, val |-> s]
PlainSubst == Subst(<<"a", "b">>)
Substs == {NoSubst, PlainSubst, Subst(<<"a", Q, NL, "b">>)}

Builds ==
  {b \in [Status : Statuses, LogUrl : LogUrls, Substitutions : Substs] :
     \/ b.Status = Build_SUCCESS
     \/ b.LogUrl = GoodUrl /\ b.Substitutions = PlainSubst}

\* the bindings br.Resolve may return: the value of the one parameter P
Bindings == {<<"x">>, <<"y">>}

TemplateView(build, bindings) == [Build |-> build, Params |-> bindings]

HexDigits ==
  {"0", "1", "2", "3", "4", "5", "6", "7", "8", "9", "a", "b", "c", "d", "e", "f",
   "A", "B", "C", "D", "E", "F"}

\* notifiers.AddUTMParams fails when url.Parse refuses the log URL, which it
\* does for a percent sign not followed by two hexadecimal digits
AddUTMParams(url) ==
  IF \E i \in 1..Len(url) :
       /\ url[i] = "%"
       /\ ~(i + 2 <= Len(url) /\ url[i + 1] \in HexDigits /\ url[i + 2] \in HexDigits)
  THEN Failure("failed to parse URL")
  ELSE Success(url \o <<"&", "u", "t", "m">>)

(***************************************************************************)
(* Templates: a sequence of nodes, each literal text, a printed field or   *)
(* a function call on one argument (a field or the literal nil).           *)
(***************************************************************************)
TextNode(s) == [t |-> "text", s |-> s, fn |-> "", f |-> ""]
FieldNode(f) == [t |-> "field", s |-> <<>>, fn |-> "", f |-> f]
CallNode(fn, f) == [t |-> "call", s |-> <<>>, fn |-> fn, f |-> f]

BlockFuncs == {"replace", "jsonEscape"}
TextFuncs == {"replace"}

\* template.Parse refuses a call of a function that is not in the FuncMap
ParseTemplate(tmpl, funcs) ==
  \A i \in 1..Len(tmpl) : tmpl[i].t = "call" => tmpl[i].fn \in funcs

evalField(view, f) ==
  CASE f = "Build.Status" -> Success(EnumVal(view.Build.Status))
    [] f = "Build.ProjectId" -> Success(StrVal(ProjectId))
    [] f = "Build.LogUrl" -> Success(StrVal(view.Build.LogUrl))
    [] f = "Build.Substitutions.K" ->
         Success(StrVal(IF view.Build.Substitutions.has
                        THEN view.Build.Substitutions.val ELSE <<>>))
    [] f = "Params.P" -> Success(StrVal(view.Params))
    [] f = "nil" -> Success(NilVal)
    [] OTHER -> Failure("can't evaluate field")

printValue(v) == IF v.k = "enum" THEN StatusString(v.n) ELSE v.s

ExecNode(node, view) ==
  IF node.t = "text" THEN Success(node.s)
  ELSE LET a == evalField(view, node.f)
       IN IF ~a.ok THEN a
          ELSE IF node.t = "field" THEN Success(printValue(a.out))
          ELSE IF node.fn = "jsonEscape" THEN CallJsonEscape(a.out)
          ELSE CallReplace(a.out, Q, <<"'">>)

RECURSIVE Execute(_, _)
Execute(tmpl, view) ==
  IF tmpl = <<>> THEN Success(<<>>)
  ELSE LET r == ExecNode(Head(tmpl), view)
       IN IF ~r.ok THEN r
          ELSE LET rest == Execute(Tail(tmpl), view)
               IN IF ~rest.ok THEN rest ELSE Success(r.out \o rest.out)

(***************************************************************************)
(* slack.Blocks.UnmarshalJSON over the reduced block schema.               *)
(***************************************************************************)
SectionBlock(text) == [type |-> "section", text |-> text]
DividerBlock == [type |-> "divider", text |-> <<>>]

SecOpen == <<"{", Q, "s", Q, ":", Q>>
SecClose == <<Q, "}">>
DivText == <<"{", Q, "d", Q, ":", "1", "}">>

Lit(s, i, lit) ==
  /\ i + Len(lit) - 1 <= Len(s)
  /\ SubSeq(s, i, i + Len(lit) - 1) = lit

NoParse == [ok |-> FALSE, val |-> <<>>, next |-> 0]

\* the body of a JSON string up to its closing quote
RECURSIVE ScanStr(_, _, _)
ScanStr(s, i, acc) ==
  IF i > Len(s) THEN NoParse
  ELSE IF s[i] = Q THEN [ok |-> TRUE, val |-> acc, next |-> i + 1]
  ELSE IF s[i] = NL THEN NoParse
  ELSE IF s[i] = BS
    THEN IF i + 1 > Len(s) THEN NoParse
         ELSE IF s[i + 1] \in {Q, BS} THEN ScanStr(s, i + 2, Append(acc, s[i + 1]))
         ELSE IF s[i + 1] = "n" THEN ScanStr(s, i + 2, Append(acc, NL))
         ELSE NoParse
  ELSE ScanStr(s, i + 1, Append(acc, s[i]))

ParseBlock(s, i) ==
  IF Lit(s, i, DivText)
  THEN [ok |-> TRUE, val |-> DividerBlock, next |-> i + Len(DivText)]
  ELSE IF Lit(s, i, SecOpen)
  THEN LET r == ScanStr(s, i + Len(SecOpen), <<>>)
       IN IF r.ok /\ r.next <= Len(s) /\ s[r.next] = "}"
          THEN [ok |-> TRUE, val |-> SectionBlock(r.val), next |-> r.next + 1]
          ELSE NoParse
  ELSE NoParse

RECURSIVE ParseElems(_, _, _)
ParseElems(s, i, acc) ==
  LET b == ParseBlock(s, i)
  IN IF ~b.ok \/ b.next > Len(s) THEN Failure("json")
     ELSE IF s[b.next] = "," THEN ParseElems(s, b.next + 1, Append(acc, b.val))
     ELSE IF s[b.next] = "]" /\ b.next = Len(s) THEN Success(Append(acc, b.val))
     ELSE Failure("json")

UnmarshalJSON(s) ==
  IF s = <<"[", "]">> THEN Success(<<>>)
  ELSE IF Len(s) >= 1 /\ s[1] = "[" THEN ParseElems(s, 2, <<>>)
  ELSE Failure("json")

(***************************************************************************)
(* The templates and configurations the host may set the notifier up with. *)
(***************************************************************************)
Pad(n) == [i \in 1..n |-> "x"]

TmplStatus ==
  <<TextNode(<<"[">> \o SecOpen), FieldNode("Build.Substitutions.K"),
    TextNode(<<":">>), FieldNode("Build.Status"), TextNode(SecClose \o <<"]">>)>>
TmplReplace ==
  <<TextNode(<<"[">> \o SecOpen), CallNode("replace", "Build.LogUrl"),
    TextNode(SecClose \o <<"]">>)>>
TmplEscape ==
  <<TextNode(<<"[">> \o SecOpen), CallNode("jsonEscape", "Build.Substitutions.K"),
    TextNode(SecClose \o <<"]">>)>>
TmplEscapeStatus ==
  <<TextNode(<<"[">> \o SecOpen), CallNode("jsonEscape", "Build.Status"),
    TextNode(SecClose \o <<"]">>)>>
TmplEscapeNil ==
  <<TextNode(<<"[">> \o SecOpen), CallNode("jsonEscape", "nil"),
    TextNode(SecClose \o <<"]">>)>>
TmplBadField ==
  <<TextNode(<<"[">> \o SecOpen), FieldNode("Build.NoSuchField"),
    TextNode(SecClose \o <<"]">>)>>
TmplTwoBlocks ==
  <<TextNode(<<"[">> \o SecOpen), FieldNode("Params.P"),
    TextNode(SecClose \o <<",">> \o DivText \o <<"]">>)>>
TmplNotArray == <<TextNode(SecOpen \o <<"a">> \o SecClose)>>
TmplLong(n) == <<TextNode(Pad(n))>>

TextStatus ==
  <<TextNode(<<"B", " ">>), FieldNode("Build.Status"), TextNode(<<" ">>),
    FieldNode("Build.ProjectId")>>
TextSubst == <<FieldNode("Build.Substitutions.K")>>
TextBadField == <<TextNode(<<"B">>), FieldNode("Build.NoSuchField")>>
TextEscape == <<CallNode("jsonEscape", "Build.Substitutions.K")>>

TmplUndefined ==
  <<TextNode(<<"[">> \o SecOpen), CallNode("upper", "Build.LogUrl"),
    TextNode(SecClose \o <<"]">>)>>

BlockTemplates ==
  {TmplStatus, TmplReplace, TmplEscape, TmplEscapeStatus, TmplEscapeNil,
   TmplBadField, TmplTwoBlocks, TmplNotArray, TmplUndefined,
   TmplLong(TruncLen), TmplLong(TruncLen + MaxExtra)}

\* cfg.Spec.Notification.Params["messageTemplate"]: absent, or a template
\* source, of which <<>> is the empty string
NoParam == [ok |-> FALSE, t |-> <<>>]
Param(t) == [ok |-> TRUE, t |-> t]
MessageTemplates ==
  {NoParam, Param(<<>>), Param(TextStatus), Param(TextSubst), Param(TextBadField),
   Param(TextEscape)}

\* the event filter, a predicate on the build: the statuses it lets through
FilterAll == Statuses
FilterTerminal == {Build_SUCCESS, Build_FAILURE, Build_INTERNAL_ERROR, Build_TIMEOUT}
Filters == {FilterAll, FilterTerminal}

Config(f, b, m) == [filter |-> f, blockKitTemplate |-> b, messageTemplate |-> m]
Configs ==
  {Config(FilterAll, b, NoParam) : b \in BlockTemplates}
    \cup {Config(f, TmplStatus, m) : f \in Filters, m \in MessageTemplates}
    \cup {Config(FilterAll, b, Param(TextStatus)) :
            b \in {TmplEscape, TmplTwoBlocks, TmplNotArray}}

(***************************************************************************)
(* Errors, messages and pointers.                                          *)
(***************************************************************************)
\* an error: the chain of its messages, outermost first, and the rendered
\* text its messages quote
NoErr == [chain |-> <<>>, text |-> <<>>]
NewError(msg) == [chain |-> <<msg>>, text |-> <<>>]
Errorf(msg, cause) == [chain |-> <<msg>> \o cause.chain, text |-> cause.text]

NilPtr == [nil |-> TRUE, v |-> <<>>]
Ptr(v) == [nil |-> FALSE, v |-> v]

Attachment(clr, blocks) == [Color |-> clr, Blocks |-> blocks]
NilMsg == [nil |-> TRUE, Text |-> <<>>, Attachments |-> <<>>]
WebhookMessage(text, attachments) ==
  [nil |-> FALSE, Text |-> text, Attachments |-> attachments]

\* a truncation that also cuts a text of exactly TruncLen characters
TruncateOffByOne(jsonStr) ==
  IF Len(jsonStr) >= TruncLen
  THEN SubSeq(jsonStr, 1, TruncLen) \o <<".", ".", ".">>
  ELSE jsonStr

\* the text log.Errorf is given when the blocks do not parse
Truncate(jsonStr) ==
  IF Len(jsonStr) > TruncLen
  THEN SubSeq(jsonStr, 1, TruncLen) \o <<".", ".", ".">>
  ELSE jsonStr

(***************************************************************************)
(* State.                                                                  *)
(***************************************************************************)
VARIABLES
  setup,      \* "new", then "ready" or "failed" once SetUp has returned
  filter,     \* s.filter
  tmpl,       \* s.tmpl
  textTmpl,   \* s.textTmpl
  tmplView,   \* s.tmplView
  calls,      \* SendNotification calls the host has made
  inv,        \* the SendNotification call each goroutine is in
  history     \* what the calls that have returned gave the host, in order

vars == <<setup, filter, tmpl, textTmpl, tmplView, calls, inv, history>>

Goroutines == 1..NumGoroutines

NoBuild == [Status |-> 0, LogUrl |-> <<>>, Substitutions |-> NoSubst]

\* a goroutine outside SendNotification
Idle ==
  [pc |-> "idle", build |-> NoBuild, bindings |-> <<>>, wbuild |-> NoBuild,
   clr |-> <<>>, jsonStr |-> <<>>, logged |-> <<>>, msg |-> NilMsg,
   did |-> {}, posts |-> 0, sent |-> NilMsg, err |-> NoErr]

Init ==
  /\ setup = "new"
  /\ filter = {}
  /\ tmpl = NilPtr
  /\ textTmpl = NilPtr
  /\ tmplView = NilPtr
  /\ calls = 0
  /\ inv = [g \in Goroutines |-> Idle]
  /\ history = <<>>

(***************************************************************************)
(* SetUp.                                                                  *)
(***************************************************************************)
SetUp(cfg) ==
  LET blockOk == ParseTemplate(cfg.blockKitTemplate, BlockFuncs)
      hasText == cfg.messageTemplate.ok /\ cfg.messageTemplate.t # <<>>
      textOk == ~hasText \/ ParseTemplate(cfg.messageTemplate.t, TextFuncs)
  IN /\ setup = "new"
     /\ filter' = cfg.filter
     /\ tmpl' = IF blockOk THEN Ptr(cfg.blockKitTemplate) ELSE tmpl
     /\ textTmpl' =
          IF blockOk /\ hasText /\ textOk THEN Ptr(cfg.messageTemplate.t) ELSE textTmpl
     /\ setup' = IF blockOk /\ textOk THEN "ready" ELSE "failed"
     /\ UNCHANGED <<tmplView, calls, inv, history>>

(***************************************************************************)
(* SendNotification, one action for each stretch of it between two         *)
(* accesses to the notifier's fields.                                      *)
(***************************************************************************)
Finish(g, r) == inv' = [inv EXCEPT ![g] = [r EXCEPT !.pc = "done"]]

\* the host calls SendNotification(ctx, build) on goroutine g
Start(g, build) ==
  /\ setup = "ready"
  /\ calls < MaxCalls
  /\ inv[g].pc = "idle"
  /\ calls' = calls + 1
  /\ inv' = [inv EXCEPT ![g] = [Idle EXCEPT !.pc = "filter", !.build = build]]
  /\ UNCHANGED <<setup, filter, tmpl, textTmpl, tmplView, history>>

\* a call that goes on whatever the filter says
ApplyFilterIgnored(g) ==
  /\ inv[g].pc = "filter"
  /\ inv' = [inv EXCEPT ![g].pc = "resolve"]
  /\ UNCHANGED <<setup, filter, tmpl, textTmpl, tmplView, calls, history>>

\* s.filter.Apply: a build the filter refuses ends the call with no error
ApplyFilter(g) ==
  /\ inv[g].pc = "filter"
  /\ IF inv[g].build.Status \in filter
     THEN inv' = [inv EXCEPT ![g].pc = "resolve"]
     ELSE Finish(g, inv[g])
  /\ UNCHANGED <<setup, filter, tmpl, textTmpl, tmplView, calls, history>>

\* s.br.Resolve fails
ResolveFails(g) ==
  /\ inv[g].pc = "resolve"
  /\ Finish(g, [inv[g] EXCEPT
               !.err = Errorf("failed to resolve bindings", NewError("resolve"))])
  /\ UNCHANGED <<setup, filter, tmpl, textTmpl, tmplView, calls, history>>

\* a view that is stored only while s.tmplView is nil
SetTmplViewOnce(old, new) == IF old.nil THEN new ELSE old

\* the view s.tmplView holds once SendNotification has stored its own
SetTmplView(old, new) == new

\* s.br.Resolve returns bindings and the view is stored in s.tmplView
Resolve(g, bindings) ==
  /\ inv[g].pc = "resolve"
  /\ tmplView' = SetTmplView(tmplView, Ptr(TemplateView(inv[g].build, bindings)))
  /\ inv' = [inv EXCEPT ![g] = [@ EXCEPT !.pc = "utm", !.bindings = bindings,
                                          !.did = @ \cup {"resolve"}]]
  /\ UNCHANGED <<setup, filter, tmpl, textTmpl, calls, history>>

(***************************************************************************)
(* writeMessage, in the three stretches between its reads of s.tmplView.   *)
(***************************************************************************)
\* a writeMessage that drops the error of AddUTMParams
wmColorUnchecked(build) ==
  [ok |-> TRUE, clr |-> statusColor(build.Status), err |-> NoErr]

\* the log URL check and the color switch
wmColor(build) ==
  LET u == AddUTMParams(build.LogUrl)
  IN IF ~u.ok
     THEN [ok |-> FALSE, clr |-> <<>>,
           err |-> Errorf("failed to add UTM params", NewError(u.out))]
     ELSE [ok |-> TRUE, clr |-> statusColor(build.Status), err |-> NoErr]

\* a writeMessage that goes on with no blocks when the output does not parse
wmBlocksPartial(t, view, clr) ==
  LET x == Execute(t, view)
  IN IF ~x.ok
     THEN [ok |-> FALSE, msg |-> NilMsg, err |-> NewError(x.out), jsonStr |-> <<>>,
           logged |-> <<>>, steps |-> {}]
     ELSE LET b == UnmarshalJSON(x.out)
          IN [ok |-> TRUE,
              msg |-> WebhookMessage(<<>>, <<Attachment(clr, IF b.ok THEN b.out ELSE <<>>)>>),
              err |-> NoErr, jsonStr |-> x.out,
              logged |-> IF b.ok THEN <<>> ELSE <<Truncate(x.out)>>,
              steps |-> IF b.ok THEN {"blocks", "parse"} ELSE {"blocks"}]

\* a writeMessage that makes one attachment for each block
wmBlocksPerBlock(t, view, clr) ==
  LET x == Execute(t, view)
  IN IF ~x.ok
     THEN [ok |-> FALSE, msg |-> NilMsg, err |-> NewError(x.out), jsonStr |-> <<>>,
           logged |-> <<>>, steps |-> {}]
     ELSE LET b == UnmarshalJSON(x.out)
          IN IF ~b.ok
             THEN [ok |-> FALSE, msg |-> NilMsg,
                   err |-> Errorf("failed to unmarshal templating JSON", NewError(b.out)),
                   jsonStr |-> x.out, logged |-> <<Truncate(x.out)>>,
                   steps |-> {"blocks"}]
             ELSE [ok |-> TRUE,
                   msg |-> WebhookMessage(<<>>,
                             [i \in 1..Len(b.out) |-> Attachment(clr, <<b.out[i]>>)]),
                   err |-> NoErr, jsonStr |-> x.out, logged |-> <<>>,
                   steps |-> {"blocks", "parse"}]

\* the block template is executed and parsed, and the message assembled
wmBlocks(t, view, clr) ==
  LET x == Execute(t, view)
  IN IF ~x.ok
     THEN [ok |-> FALSE, msg |-> NilMsg, err |-> NewError(x.out), jsonStr |-> <<>>,
           logged |-> <<>>, steps |-> {}]
     ELSE LET b == UnmarshalJSON(x.out)
          IN IF ~b.ok
             THEN [ok |-> FALSE, msg |-> NilMsg,
                   err |-> Errorf("failed to unmarshal templating JSON", NewError(b.out)),
                   jsonStr |-> x.out, logged |-> <<Truncate(x.out)>>,
                   steps |-> {"blocks"}]
             ELSE [ok |-> TRUE,
                   msg |-> WebhookMessage(<<>>, <<Attachment(clr, b.out)>>),
                   err |-> NoErr, jsonStr |-> x.out, logged |-> <<>>,
                   steps |-> {"blocks", "parse"}]

\* a writeMessage that executes the text template and drops its output
wmTextDropped(tt, view, msg) ==
  LET x == Execute(tt, view)
  IN IF ~x.ok
     THEN [ok |-> FALSE, msg |-> NilMsg,
           err |-> Errorf("failed to execute text template", NewError(x.out)),
           steps |-> {}]
     ELSE [ok |-> TRUE, msg |-> msg, err |-> NoErr, steps |-> {"text"}]

\* the text template, when one is configured, is executed into msg.Text
wmText(tt, view, msg) ==
  LET x == Execute(tt, view)
  IN IF ~x.ok
     THEN [ok |-> FALSE, msg |-> NilMsg,
           err |-> Errorf("failed to execute text template", NewError(x.out)),
           steps |-> {}]
     ELSE [ok |-> TRUE, msg |-> [msg EXCEPT !.Text = x.out], err |-> NoErr,
           steps |-> {"text"}]

\* writeMessage on a view that no other call replaces meanwhile
writeMessage(t, tt, view) ==
  LET c == wmColor(view.Build)
  IN IF ~c.ok THEN [ok |-> FALSE, msg |-> NilMsg, err |-> c.err]
     ELSE LET b == wmBlocks(t, view, c.clr)
          IN IF ~b.ok THEN [ok |-> FALSE, msg |-> NilMsg, err |-> b.err]
             ELSE IF tt.nil THEN [ok |-> TRUE, msg |-> b.msg, err |-> NoErr]
             ELSE LET x == wmText(tt.v, view, b.msg)
                  IN [ok |-> x.ok, msg |-> x.msg, err |-> x.err]

WriteFailed(cause) == Errorf("failed to write Slack message", cause)

\* writeMessage is entered: build := s.tmplView.Build, the log URL, the color
WriteColor(g) ==
  /\ inv[g].pc = "utm"
  /\ LET build == tmplView.v.Build
         r == wmColor(build)
         me == [inv[g] EXCEPT !.wbuild = build, !.did = @ \cup {"writeMessage"}]
     IN IF r.ok
        THEN inv' = [inv EXCEPT ![g] = [me EXCEPT !.pc = "blocks", !.clr = r.clr]]
        ELSE Finish(g, [me EXCEPT !.err = WriteFailed(r.err)])
  /\ UNCHANGED <<setup, filter, tmpl, textTmpl, tmplView, calls, history>>

\* s.tmpl.Execute(&buf, s.tmplView), blocks.UnmarshalJSON, the message
WriteBlocks(g) ==
  /\ inv[g].pc = "blocks"
  /\ LET r == wmBlocks(tmpl.v, tmplView.v, inv[g].clr)
         me == [inv[g] EXCEPT !.jsonStr = r.jsonStr, !.logged = r.logged,
                              !.msg = r.msg, !.did = @ \cup r.steps]
     IN IF r.ok
        THEN inv' = [inv EXCEPT ![g] =
                       [me EXCEPT !.pc = IF textTmpl.nil THEN "post" ELSE "text"]]
        ELSE Finish(g, [me EXCEPT !.err = WriteFailed(r.err)])
  /\ UNCHANGED <<setup, filter, tmpl, textTmpl, tmplView, calls, history>>

\* s.textTmpl.Execute(&textBuf, s.tmplView)
WriteText(g) ==
  /\ inv[g].pc = "text"
  /\ LET r == wmText(textTmpl.v, tmplView.v, inv[g].msg)
         me == [inv[g] EXCEPT !.msg = r.msg, !.did = @ \cup r.steps]
     IN IF r.ok
        THEN inv' = [inv EXCEPT ![g] = [me EXCEPT !.pc = "post"]]
        ELSE Finish(g, [me EXCEPT !.err = WriteFailed(r.err)])
  /\ UNCHANGED <<setup, filter, tmpl, textTmpl, tmplView, calls, history>>

\* slack.PostWebhook(s.webhookURL, msg): the POST is made, and succeeds or not
PostWebhook(g, delivered) ==
  /\ inv[g].pc = "post"
  /\ Finish(g, [inv[g] EXCEPT
               !.posts = @ + 1, !.sent = inv[g].msg,
               !.err = IF delivered THEN NoErr ELSE NewError("webhook")])
  /\ UNCHANGED <<setup, filter, tmpl, textTmpl, tmplView, calls, history>>

\* what a finished call gave the host: nil without a POST (the filter's
\* skip), nil after a POST, or an error
Returned(r) ==
  IF r.err # NoErr THEN "error" ELSE IF r.posts = 0 THEN "skipped" ELSE "posted"

\* SendNotification has returned to the host
Return(g) ==
  /\ inv[g].pc = "done"
  /\ inv' = [inv EXCEPT ![g] = Idle]
  /\ history' = Append(history, Returned(inv[g]))
  /\ UNCHANGED <<setup, filter, tmpl, textTmpl, tmplView, calls>>

Step(g) ==
  \/ ApplyFilter(g)
  \/ ResolveFails(g)
  \/ \E bindings \in Bindings : Resolve(g, bindings)
  \/ WriteColor(g)
  \/ WriteBlocks(g)
  \/ WriteText(g)
  \/ \E delivered \in BOOLEAN : PostWebhook(g, delivered)
  \/ Return(g)

(***************************************************************************)
(* Spec: the host calls SendNotification from one goroutine, a call at a   *)
(* time.  ConcSpec: the host calls it from every goroutine at once.        *)
(***************************************************************************)
Next ==
  \/ \E cfg \in Configs : SetUp(cfg)
  \/ \E build \in Builds : Start(1, build)
  \/ Step(1)

Spec == Init /\ [][Next]_vars

ConcBuilds ==
  {b \in Builds : b.Substitutions = PlainSubst /\ b.Status \in {2, Build_SUCCESS}}

ConcNext ==
  \/ \E cfg \in Configs : SetUp(cfg)
  \/ \E g \in Goroutines, build \in ConcBuilds : Start(g, build)
  \/ \E g \in Goroutines : Step(g)

ConcSpec == Init /\ [][ConcNext]_vars
(***************************************************************************)
(* Properties.                                                             *)
(***************************************************************************)
Finished(g) == inv[g].pc = "done"
Entered(g) == "writeMessage" \in inv[g].did
PassesFilter(g) == inv[g].build.Status \in filter
OwnView(g) == TemplateView(inv[g].build, inv[g].bindings)
UrlOk(build) == AddUTMParams(build.LogUrl).ok
Quotes(err, msg) == \E i \in 1..Len(err.chain) : err.chain[i] = msg
Prefix(s, n) == SubSeq(s, 1, IF Len(s) < n THEN Len(s) ELSE n)
Contains(s, c) == \E i \in 1..Len(s) : s[i] = c

\* C1: once writeMessage is past the log URL check, the color is the success
\* color for SUCCESS, the failure color for FAILURE, INTERNAL_ERROR and
\* TIMEOUT, and the neutral color for every other status: the switch gives
\* every status a color and fails for none; a message carries that color.
C1_ColorByStatus ==
  \A g \in Goroutines :
    Entered(g) /\ UrlOk(inv[g].wbuild) =>
      LET st == inv[g].wbuild.Status
          want == IF st = Build_SUCCESS THEN ColorSuccess
                  ELSE IF st \in {Build_FAILURE, Build_INTERNAL_ERROR, Build_TIMEOUT}
                       THEN ColorFailure
                  ELSE ColorNeutral
      IN /\ inv[g].clr = want
         /\ ~Quotes(inv[g].err, "failed to add UTM params")
         /\ ~inv[g].msg.nil => \A i \in 1..Len(inv[g].msg.Attachments) :
                                 inv[g].msg.Attachments[i].Color = want

C1_Witness ==
  \E g \in Goroutines :
    /\ Finished(g) /\ inv[g].posts = 1
    /\ inv[g].wbuild.Status = 8
    /\ inv[g].sent.Attachments[1].Color = ColorNeutral

\* C2: a call makes at most one POST, and makes it only once the bindings
\* are resolved, the block template executed, its output parsed and, with a
\* text template configured, that template executed; a call that the filter
\* lets through and that lacks one of these steps ends with an error and
\* without a POST.
C2_PostOnlyWhenComplete ==
  \A g \in Goroutines :
    LET need == {"resolve", "blocks", "parse"}
                  \cup (IF textTmpl.nil THEN {} ELSE {"text"})
    IN /\ inv[g].posts <= 1
       /\ inv[g].posts = 1 => need \subseteq inv[g].did /\ ~inv[g].sent.nil
       /\ Finished(g) /\ PassesFilter(g) /\ ~(need \subseteq inv[g].did) =>
            inv[g].posts = 0 /\ inv[g].err # NoErr /\ inv[g].sent.nil

C2_Witness ==
  \E g \in Goroutines :
    /\ Finished(g) /\ ~textTmpl.nil
    /\ inv[g].posts = 1 /\ "text" \in inv[g].did

\* C3: under concurrent delivery the payload a call posts is the one
\* writeMessage computes from that call's own build and bindings.
C3_PayloadFromOwnEvent ==
  \A g \in Goroutines :
    inv[g].posts = 1 =>
      LET own == writeMessage(tmpl.v, textTmpl, OwnView(g))
      IN own.ok /\ inv[g].sent = own.msg

\* C4: a call whose build the filter refuses ends with no error, with no
\* bindings resolved, writeMessage never entered, no payload and no POST.
C4_FilteredIsSilentSkip ==
  \A g \in Goroutines :
    inv[g].pc \notin {"idle", "filter"} /\ ~PassesFilter(g) =>
      /\ Finished(g)
      /\ inv[g].did = {} /\ inv[g].bindings = <<>>
      /\ inv[g].msg.nil /\ inv[g].sent.nil /\ inv[g].posts = 0
      /\ inv[g].err = NoErr

C4_Witness ==
  \E g \in Goroutines :
    Finished(g) /\ ~PassesFilter(g) /\ inv[g].build.Status = 2

\* C5: with no text template a rendered message has the empty text; with
\* one, its text is the output of executing that template on the view the
\* block template was executed on; when that execution fails the render
\* gives an error and no message.
C5_TextFromTextTemplate ==
  \A g \in Goroutines :
    LET text == Execute(textTmpl.v, OwnView(g))
        blocks == wmBlocks(tmpl.v, OwnView(g), inv[g].clr)
    IN /\ inv[g].pc \in {"post", "done"} /\ ~inv[g].msg.nil =>
            /\ textTmpl.nil => inv[g].msg.Text = <<>>
            /\ ~textTmpl.nil => text.ok /\ inv[g].msg.Text = text.out
            /\ inv[g].msg.Attachments = blocks.msg.Attachments
       /\ inv[g].msg.Text # <<>> => ~textTmpl.nil
       /\ Finished(g) /\ "parse" \in inv[g].did /\ ~textTmpl.nil /\ ~text.ok =>
            /\ inv[g].msg.nil /\ inv[g].posts = 0
            /\ Quotes(inv[g].err, "failed to execute text template")

C5_Witness ==
  \E g \in Goroutines :
    /\ Finished(g) /\ ~textTmpl.nil /\ inv[g].posts = 1
    /\ inv[g].sent.Text = Execute(TextStatus, OwnView(g)).out

\* C6: a message writeMessage returns has exactly one attachment, with the
\* color of the build's status and the blocks parsed from the output of the
\* block template.
C6_OneAttachment ==
  \A g \in Goroutines :
    ~inv[g].msg.nil =>
      LET out == Execute(tmpl.v, OwnView(g))
      IN /\ Len(inv[g].msg.Attachments) = 1
         /\ inv[g].msg.Attachments[1].Color = statusColor(inv[g].build.Status)
         /\ out.ok /\ UnmarshalJSON(out.out).ok
         /\ inv[g].msg.Attachments[1].Blocks = UnmarshalJSON(out.out).out

C6_Witness ==
  \E g \in Goroutines :
    /\ Finished(g) /\ inv[g].posts = 1
    /\ Len(inv[g].sent.Attachments) = 1
    /\ Len(inv[g].sent.Attachments[1].Blocks) = 2

ParseFailed(g) ==
  Finished(g) /\ Quotes(inv[g].err, "failed to unmarshal templating JSON")

\* C7 as stated: when the rendered blocks do not parse, the render gives no
\* message and the error returned quotes the first TruncLen characters of
\* the rendered text.
C7_ErrorQuotesText ==
  \A g \in Goroutines :
    ParseFailed(g) =>
      /\ inv[g].msg.nil /\ inv[g].posts = 0
      /\ inv[g].err.text = Prefix(inv[g].jsonStr, TruncLen)

\* C7 as amended: when the rendered blocks do not parse, the render gives no
\* message and nothing is posted; the first TruncLen characters of the
\* rendered text, followed by "..." when the text is longer, go to the error
\* log, and the error returned quotes none of the text.
C7_LogQuotesText ==
  \A g \in Goroutines :
    ParseFailed(g) =>
      /\ inv[g].msg.nil /\ inv[g].posts = 0 /\ "parse" \notin inv[g].did
      /\ inv[g].err.text = <<>>
      /\ inv[g].logged =
           <<IF Len(inv[g].jsonStr) <= TruncLen THEN inv[g].jsonStr
             ELSE Prefix(inv[g].jsonStr, TruncLen) \o <<".", ".", ".">> >>

C7_Witness ==
  \E g \in Goroutines :
    /\ ParseFailed(g)
    /\ Len(inv[g].jsonStr) > TruncLen
    /\ Len(inv[g].logged[1]) = TruncLen + 3

UsesJsonEscape(t) == \E i \in 1..Len(t) : t[i].t = "call" /\ t[i].fn = "jsonEscape"

\* C8: a block template that applies jsonEscape, to a string, to a value
\* that is not a string or to nil, never fails to execute for that reason.
C8_JsonEscapeTotal ==
  \A g \in Goroutines :
    /\ Finished(g) /\ Entered(g) /\ UrlOk(inv[g].wbuild)
    /\ UsesJsonEscape(tmpl.v)
    => "blocks" \in inv[g].did

Outcome(r) == [err |-> r.err, posts |-> r.posts, sent |-> r.sent]

\* what a call gives when it is the first one after SetUp
FirstCall(build, resolved, bindings, delivered) ==
  IF build.Status \notin filter
  THEN [err |-> NoErr, posts |-> 0, sent |-> NilMsg]
  ELSE IF ~resolved
  THEN [err |-> Errorf("failed to resolve bindings", NewError("resolve")),
        posts |-> 0, sent |-> NilMsg]
  ELSE LET w == writeMessage(tmpl.v, textTmpl, TemplateView(build, bindings))
       IN IF ~w.ok
          THEN [err |-> WriteFailed(w.err), posts |-> 0, sent |-> NilMsg]
          ELSE [err |-> IF delivered THEN NoErr ELSE NewError("webhook"),
                posts |-> 1, sent |-> w.msg]

\* C9: whatever the earlier calls did, a call made after them ends as it
\* would as the first call after SetUp: the same skip, the same error or
\* the same payload posted.
C9_CallsAreIndependent ==
  \A g \in Goroutines :
    Finished(g) =>
      Outcome(inv[g]) =
        FirstCall(inv[g].build, "resolve" \in inv[g].did, inv[g].bindings,
                  ~Quotes(inv[g].err, "webhook"))

C9_Witness ==
  \E g \in Goroutines :
    /\ Finished(g) /\ inv[g].posts = 1
    /\ Len(history) >= 1 /\ history[Len(history)] = "error"
    /\ tmplView.v.Build.Status = Build_FAILURE

\* C10: a log URL that AddUTMParams refuses ends writeMessage at once: no
\* color is computed, no template executed, no message returned, nothing
\* posted; and no message posted carries the URL with the UTM parameters.
C10_LogUrlCheckedFirst ==
  \A g \in Goroutines :
    /\ Entered(g) /\ ~UrlOk(inv[g].wbuild) =>
         /\ Finished(g)
         /\ inv[g].clr = <<>> /\ inv[g].jsonStr = <<>>
         /\ inv[g].did = {"resolve", "writeMessage"}
         /\ inv[g].msg.nil /\ inv[g].posts = 0
         /\ Quotes(inv[g].err, "failed to add UTM params")
    /\ ~inv[g].sent.nil =>
         \A i \in 1..Len(inv[g].sent.Attachments[1].Blocks) :
           ~Contains(inv[g].sent.Attachments[1].Blocks[i].text, "&")

C10_Witness ==
  \E g \in Goroutines :
    /\ Finished(g) /\ Entered(g)
    /\ inv[g].wbuild.LogUrl = BadUrl
    /\ Quotes(inv[g].err, "failed to add UTM params")
====
